---- MODULE Spec2Model ----
(***************************************************************************)
(* Model of the Stroskovnik timesheet parser                               *)
(* (src/pdf-parser/stroskovnik_parser.py).                                 *)
(*                                                                         *)
(* Cells, header cells and clock times are TLA+ strings handled character  *)
(* by character (Len, SubSeq, \o), as the Python code handles them.        *)
(* Hours are kept as integers in hundredths of an hour (7.5 h = 750), so   *)
(* that sums and roundings are exact; the cell alphabet carries at most    *)
(* two decimals.  Python indices are kept 0-based as in the source; the    *)
(* 1-based TLA+ sequences are read at index + 1.  The letter S-caron of    *)
(* the labels is written S.                                                *)
(***************************************************************************)
EXTENDS Integers, Sequences, FiniteSets, TLC

(***************************************************************************)
(* Bounds of the model.                                                    *)
(***************************************************************************)
MaxTables == 2
MaxRows == 2
MaxTotalRows == 2
MaxDays == 2
MaxScatter == 1
MaxDocs == 2

(***************************************************************************)
(* String primitives (Python str methods used by the parser).              *)
(***************************************************************************)
Char(s, i) == SubSeq(s, i, i)

Digits == {"0", "1", "2", "3", "4", "5", "6", "7", "8", "9"}

DigitVal(c) ==
  CASE c = "0" -> 0 [] c = "1" -> 1 [] c = "2" -> 2 [] c = "3" -> 3
    [] c = "4" -> 4 [] c = "5" -> 5 [] c = "6" -> 6 [] c = "7" -> 7
    [] c = "8" -> 8 [] c = "9" -> 9

\* sub in s
Contains(s, sub) ==
  \E i \in 1..(Len(s) - Len(sub) + 1) : SubSeq(s, i, i + Len(sub) - 1) = sub

\* s.strip()
RECURSIVE Strip(_)
Strip(s) ==
  IF Len(s) = 0 THEN s
  ELSE IF Char(s, 1) = " " THEN Strip(SubSeq(s, 2, Len(s)))
  ELSE IF Char(s, Len(s)) = " " THEN Strip(SubSeq(s, 1, Len(s) - 1))
  ELSE s

\* s.replace(',', '.')
RECURSIVE ReplaceComma(_)
ReplaceComma(s) ==
  IF Len(s) = 0 THEN s
  ELSE (IF Char(s, 1) = "," THEN "." ELSE Char(s, 1))
         \o ReplaceComma(SubSeq(s, 2, Len(s)))

UpperLetters == "ABCDEFGHIJKLMNOPQRSTUVWXYZ"
LowerLetters == "abcdefghijklmnopqrstuvwxyz"

LowerChar(c) ==
  IF \E i \in 1..Len(UpperLetters) : Char(UpperLetters, i) = c
  THEN Char(LowerLetters,
            CHOOSE i \in 1..Len(UpperLetters) : Char(UpperLetters, i) = c)
  ELSE c

\* s.lower()
RECURSIVE Lower(_)
Lower(s) ==
  IF Len(s) = 0 THEN s
  ELSE LowerChar(Char(s, 1)) \o Lower(SubSeq(s, 2, Len(s)))

\* A cell the extraction left absent (Python None).
NoneCell == "<None>"

\* str(cell)
Str(cell) == IF cell = NoneCell THEN "None" ELSE cell

\* truth value of a cell: None and '' are false
Truthy(cell) == cell # NoneCell /\ cell # ""

(***************************************************************************)
(* float(hours_str): sign, digits, optional point and digits; anything     *)
(* else raises ValueError.  val is in hundredths of an hour.               *)
(***************************************************************************)
AllDigits(s) == \A i \in 1..Len(s) : Char(s, i) \in Digits

RECURSIVE DigitsValue(_)
DigitsValue(s) ==
  IF Len(s) = 0 THEN 0
  ELSE 10 * DigitsValue(SubSeq(s, 1, Len(s) - 1)) + DigitVal(Char(s, Len(s)))

\* the fraction digits as hundredths
FracHundredths(f) ==
  IF Len(f) = 0 THEN 0
  ELSE IF Len(f) = 1 THEN 10 * DigitVal(Char(f, 1))
  ELSE 10 * DigitVal(Char(f, 1)) + DigitVal(Char(f, 2))

PointAt(s) ==
  IF \E i \in 1..Len(s) : Char(s, i) = "."
  THEN CHOOSE i \in 1..Len(s) :
         Char(s, i) = "." /\ \A j \in 1..(i - 1) : Char(s, j) # "."
  ELSE 0

ParseUnsigned(s) ==
  LET p == PointAt(s)
      ip == IF p = 0 THEN s ELSE SubSeq(s, 1, p - 1)
      fp == IF p = 0 THEN "" ELSE SubSeq(s, p + 1, Len(s))
  IN  IF AllDigits(ip) /\ AllDigits(fp) /\ Len(ip) + Len(fp) > 0
      THEN [ok |-> TRUE, val |-> 100 * DigitsValue(ip) + FracHundredths(fp)]
      ELSE [ok |-> FALSE, val |-> 0]

ParseFloat(s) ==
  IF Len(s) > 0 /\ Char(s, 1) = "-"
  THEN LET u == ParseUnsigned(SubSeq(s, 2, Len(s)))
       IN  [ok |-> u.ok, val |-> 0 - u.val]
  ELSE IF Len(s) > 0 /\ Char(s, 1) = "+"
  THEN ParseUnsigned(SubSeq(s, 2, Len(s)))
  ELSE ParseUnsigned(s)

(***************************************************************************)
(* Header handling of _parse_stroskovnik_table.                            *)
(***************************************************************************)
\* ' '.join(str(cell) for cell in header if cell)
RECURSIVE HeaderText(_)
HeaderText(header) ==
  IF Len(header) = 0 THEN ""
  ELSE LET rest == HeaderText(Tail(header))
           c == Head(header)
       IN  IF ~Truthy(c) THEN rest
           ELSE IF \E i \in 2..Len(header) : Truthy(header[i])
                THEN Str(c) \o " " \o rest
                ELSE Str(c)

\* the grid is the timesheet table
HeaderAccepted(header) ==
  ~(~Contains(HeaderText(header), "Dejanske")
      /\ ~Contains(HeaderText(header), "ure"))

\* re.search(r'(\d{1,2})', col_str): 0 when there is no digit
DayMatch(col_str) ==
  IF \E i \in 1..Len(col_str) : Char(col_str, i) \in Digits
  THEN LET i == CHOOSE k \in 1..Len(col_str) :
                  /\ Char(col_str, k) \in Digits
                  /\ \A j \in 1..(k - 1) : Char(col_str, j) \notin Digits
       IN  IF i < Len(col_str) /\ Char(col_str, i + 1) \in Digits
           THEN [found |-> TRUE, num |-> DigitsValue(SubSeq(col_str, i, i + 1))]
           ELSE [found |-> TRUE, num |-> DigitVal(Char(col_str, i))]
  ELSE [found |-> FALSE, num |-> 0]

\* day_columns[day_num] = i on a dict that keeps insertion order
DictSet(dc, day_num, i) ==
  IF \E k \in 1..Len(dc) : dc[k].day = day_num
  THEN [k \in 1..Len(dc) |->
          IF dc[k].day = day_num THEN [day |-> day_num, idx |-> i] ELSE dc[k]]
  ELSE Append(dc, [day |-> day_num, idx |-> i])

\* the loop over enumerate(header), from position i (0-based) on
RECURSIVE DayColumnsFrom(_, _, _)
DayColumnsFrom(header, i, dc) ==
  IF i >= Len(header) THEN dc
  ELSE LET m == DayMatch(Strip(Str(header[i + 1])))
       IN  DayColumnsFrom(header, i + 1,
             IF m.found /\ 1 <= m.num /\ m.num <= 31
             THEN DictSet(dc, m.num, i) ELSE dc)

\* variant: columns counted from 1
DayColumns_OneBased(header) ==
  LET dc == DayColumnsFrom(header, 0, <<>>)
  IN  [k \in 1..Len(dc) |-> [day |-> dc[k].day, idx |-> dc[k].idx + 1]]

DayColumns(header) == DayColumnsFrom(header, 0, <<>>)

RECURSIVE MaxIdx(_)
MaxIdx(dc) ==
  IF Len(dc) = 1 THEN dc[1].idx
  ELSE LET m == MaxIdx(Tail(dc))
       IN  IF dc[1].idx > m THEN dc[1].idx ELSE m

(***************************************************************************)
(* Row folding of _parse_stroskovnik_table.                                *)
(***************************************************************************)
TotalKeywords == {"vsota", "total", "skupaj", "sum"}

WorkType(work_type_code) ==
  IF work_type_code = "001" THEN "normal-work"
  ELSE IF work_type_code = "002" THEN "business-trip"
  ELSE "other"

\* variant: the total is bumped by every contribution, whatever its code
UpdateExisting_BumpTotal(d, hours, work_type) ==
  LET h002 == IF work_type = "business-trip"
              THEN d.totalHours002 + hours ELSE d.totalHours002
      h001 == IF work_type = "normal-work"
              THEN d.totalHours001 + hours ELSE d.totalHours001
  IN  [d EXCEPT !.totalHours002 = h002,
                !.totalHours001 = h001,
                !.totalHours = @ + hours,
                !.type = IF h002 > 0 THEN "business-trip" ELSE @,
                !.hasBusinessTrip = IF h002 > 0 THEN TRUE ELSE @]

\* variant: the type follows the contribution read last
UpdateExisting_LastWins(d, hours, work_type) ==
  LET h002 == IF work_type = "business-trip"
              THEN d.totalHours002 + hours ELSE d.totalHours002
      h001 == IF work_type = "normal-work"
              THEN d.totalHours001 + hours ELSE d.totalHours001
  IN  [d EXCEPT !.totalHours002 = h002,
                !.totalHours001 = h001,
                !.totalHours = h001 + h002,
                !.type = IF work_type = "other" THEN @ ELSE work_type,
                !.hasBusinessTrip = (work_type = "business-trip")]

\* "Add to existing day"
UpdateExisting(d, hours, work_type) ==
  LET h002 == IF work_type = "business-trip"
              THEN d.totalHours002 + hours ELSE d.totalHours002
      h001 == IF work_type = "normal-work"
              THEN d.totalHours001 + hours ELSE d.totalHours001
  IN  [d EXCEPT !.totalHours002 = h002,
                !.totalHours001 = h001,
                !.totalHours = h001 + h002,
                !.type = IF h002 > 0 THEN "business-trip" ELSE @,
                !.hasBusinessTrip = IF h002 > 0 THEN TRUE ELSE @]

\* variant: hours of another code are taken as normal-work hours
NewDay_CountOther(day, hours, work_type, project_code) ==
  [day |-> day,
   totalHours001 |-> IF work_type # "business-trip" THEN hours ELSE 0,
   totalHours002 |-> IF work_type = "business-trip" THEN hours ELSE 0,
   hasBusinessTrip |-> work_type = "business-trip",
   type |-> IF work_type \in {"business-trip", "normal-work"}
            THEN work_type ELSE "normal-work",
   totalHours |-> hours,
   projectCode |-> project_code]

\* "Create new day entry"
NewDay(day, hours, work_type, project_code) ==
  [day |-> day,
   totalHours001 |-> IF work_type = "normal-work" THEN hours ELSE 0,
   totalHours002 |-> IF work_type = "business-trip" THEN hours ELSE 0,
   hasBusinessTrip |-> work_type = "business-trip",
   type |-> IF work_type \in {"business-trip", "normal-work"}
            THEN work_type ELSE "normal-work",
   totalHours |-> IF work_type \in {"business-trip", "normal-work"}
                  THEN hours ELSE 0,
   projectCode |-> project_code]

\* variant: the lookup compares against the last record only
ExistingDay_LastOnly(wd, day) ==
  IF Len(wd) > 0 /\ wd[Len(wd)].day = day THEN Len(wd) ELSE 0

\* next((d for d in working_days if d["day"] == day), None), as an index
ExistingDay(wd, day) ==
  IF \E k \in 1..Len(wd) : wd[k].day = day
  THEN CHOOSE k \in 1..Len(wd) :
         wd[k].day = day /\ \A j \in 1..(k - 1) : wd[j].day # day
  ELSE 0

\* a positive number of hours is merged into the day's record
MergeHours(wd, day, hours, work_type, project_code) ==
  LET k == ExistingDay(wd, day)
  IN  IF k # 0
      THEN [wd EXCEPT ![k] = UpdateExisting(wd[k], hours, work_type)]
      ELSE Append(wd, NewDay(day, hours, work_type, project_code))

\* hours_str of one cell
HoursStr(cell) == Strip(ReplaceComma(Str(cell)))

\* body of the loop over day_columns.items()
ProcessCell(wd, row, day, col_idx, work_type, project_code) ==
  IF col_idx >= Len(row) THEN wd
  ELSE LET hours_str == HoursStr(row[col_idx + 1])
       IN  IF hours_str \in {"", "0", "0.0", "0,0"} THEN wd
           ELSE LET f == ParseFloat(hours_str)
                IN  IF f.ok /\ f.val > 0
                    THEN MergeHours(wd, day, f.val, work_type, project_code)
                    ELSE wd

\* variant: a cell that does not parse ends the row (break for continue)
RECURSIVE ProcessCells_BreakOnError(_, _, _, _, _)
ProcessCells_BreakOnError(wd, row, dc, work_type, project_code) ==
  IF Len(dc) = 0 THEN wd
  ELSE IF dc[1].idx < Len(row)
            /\ HoursStr(row[dc[1].idx + 1]) \notin {"", "0", "0.0", "0,0"}
            /\ ~ParseFloat(HoursStr(row[dc[1].idx + 1])).ok
       THEN wd
       ELSE ProcessCells_BreakOnError(
              ProcessCell(wd, row, dc[1].day, dc[1].idx, work_type,
                          project_code),
              row, Tail(dc), work_type, project_code)

RECURSIVE ProcessCells(_, _, _, _, _)
ProcessCells(wd, row, dc, work_type, project_code) ==
  IF Len(dc) = 0 THEN wd
  ELSE ProcessCells(
         ProcessCell(wd, row, dc[1].day, dc[1].idx, work_type, project_code),
         row, Tail(dc), work_type, project_code)

\* the row is dropped as a whole
RowSkipped(dc, row) ==
  \/ Len(row) <= MaxIdx(dc)
  \/ LET first_cell == IF Len(row) > 0 THEN Lower(Strip(Str(row[1]))) ELSE ""
     IN  \E keyword \in TotalKeywords : Contains(first_cell, keyword)

\* body of the loop over table[1:]
ProcessRow(wd, dc, row) ==
  IF RowSkipped(dc, row) THEN wd
  ELSE LET work_type_code == IF Len(row) > 2 THEN Strip(Str(row[3])) ELSE "001"
           project_code == IF Len(row) > 0 THEN Strip(Str(row[1])) ELSE ""
       IN  ProcessCells(wd, row, dc, WorkType(work_type_code), project_code)

\* sorted(working_days, key=lambda x: x["day"]): stable insertion sort
RECURSIVE InsertByDay(_, _)
InsertByDay(sorted, d) ==
  IF Len(sorted) = 0 THEN <<d>>
  ELSE IF Head(sorted).day <= d.day
       THEN <<Head(sorted)>> \o InsertByDay(Tail(sorted), d)
       ELSE <<d>> \o sorted

RECURSIVE SortedByDay(_)
SortedByDay(wd) ==
  IF Len(wd) = 0 THEN <<>>
  ELSE InsertByDay(SortedByDay(SubSeq(wd, 1, Len(wd) - 1)), wd[Len(wd)])

\* a grid of n rows with this first row is skipped by the loop over tables
GridSkipped(n, first_row) ==
  \/ n < 2
  \/ ~HeaderAccepted(first_row)
  \/ Len(DayColumns(first_row)) = 0

TableSkipped(table) ==
  GridSkipped(Len(table), IF Len(table) > 0 THEN table[1] ELSE <<>>)

\* _parse_stroskovnik_table on a whole list of grids
RECURSIVE FoldRows(_, _, _)
FoldRows(wd, dc, rows) ==
  IF Len(rows) = 0 THEN wd
  ELSE FoldRows(ProcessRow(wd, dc, Head(rows)), dc, Tail(rows))

RECURSIVE FoldTables(_, _)
FoldTables(wd, tables) ==
  IF Len(tables) = 0 THEN wd
  ELSE LET table == Head(tables)
       IN  FoldTables(IF TableSkipped(table) THEN wd
                      ELSE FoldRows(wd, DayColumns(table[1]), Tail(table)),
                      Tail(tables))

ParseStroskovnikTable(tables) == SortedByDay(FoldTables(<<>>, tables))

(***************************************************************************)
(* Clock times: _format_time, the HH:MM parsing and calculate_times.       *)
(***************************************************************************)
DigitChar(d) == Char("0123456789", d + 1)

\* str(n) for n >= 0
RECURSIVE IntToStr(_)
IntToStr(n) ==
  IF n < 10 THEN DigitChar(n) ELSE IntToStr(n \div 10) \o DigitChar(n % 10)

\* f"{n:02d}": zero-padded to width 2, the sign counting in the width
Format02d(n) ==
  IF n < 0 THEN "-" \o IntToStr(0 - n)
  ELSE IF n < 10 THEN "0" \o IntToStr(n)
  ELSE IntToStr(n)

\* _format_time: Python // and % round toward minus infinity
FormatTime(total_minutes) ==
  Format02d(total_minutes \div 60) \o ":" \o Format02d(total_minutes % 60)

\* s.split(':')
RECURSIVE SplitColon(_)
SplitColon(s) ==
  IF \E i \in 1..Len(s) : Char(s, i) = ":"
  THEN LET i == CHOOSE k \in 1..Len(s) :
                  Char(s, k) = ":" /\ \A j \in 1..(k - 1) : Char(s, j) # ":"
       IN  <<SubSeq(s, 1, i - 1)>> \o SplitColon(SubSeq(s, i + 1, Len(s)))
  ELSE <<s>>

\* int(s) on a signed run of digits
ParseInt(s) ==
  IF Len(s) > 0 /\ Char(s, 1) = "-" THEN 0 - DigitsValue(SubSeq(s, 2, Len(s)))
  ELSE IF Len(s) > 0 /\ Char(s, 1) = "+" THEN DigitsValue(SubSeq(s, 2, Len(s)))
  ELSE DigitsValue(s)

\* variant: the sign of the hours part is applied to the whole time
TimeToMinutes_SignWhole(s) ==
  LET dep_parts == SplitColon(s)
      h == ParseInt(dep_parts[1])
  IN  IF h < 0 THEN 0 - ((0 - h) * 60 + ParseInt(dep_parts[2]))
      ELSE h * 60 + ParseInt(dep_parts[2])

\* int(dep_parts[0]) * 60 + int(dep_parts[1])
TimeToMinutes(s) ==
  LET dep_parts == SplitColon(s)
  IN  ParseInt(dep_parts[1]) * 60 + ParseInt(dep_parts[2])

\* hours, minutes = map(int, arrival_time.split(':')); hours * 60 + minutes
BaseMinutes(arrival_time) ==
  LET parts == SplitColon(arrival_time)
  IN  ParseInt(parts[1]) * 60 + ParseInt(parts[2])

\* round(num / den), den > 0: Python rounds halves to the even neighbour
RoundHalfEven(num, den) ==
  LET q == num \div den
      r == num % den
  IN  IF 2 * r < den THEN q
      ELSE IF 2 * r > den THEN q + 1
      ELSE IF q % 2 = 0 THEN q ELSE q + 1

\* variant: the departure is counted from the base time, not the arrival
CalculateTimes_FromBase(cfg, total_hours, variation) ==
  LET base_minutes == BaseMinutes(cfg.arrival_time)
      arrival_minutes == base_minutes + variation
      break_minutes == RoundHalfEven(30 * total_hours, 800)
      work_minutes == RoundHalfEven(total_hours * 60, 100)
      departure_minutes == base_minutes + work_minutes
  IN  [arrival |-> FormatTime(arrival_minutes),
       departure |-> FormatTime(departure_minutes),
       break_minutes |-> break_minutes]

\* calculate_times; variation is the value random.randint returned and
\* total_hours is in hundredths of an hour
CalculateTimes(cfg, total_hours, variation) ==
  LET base_minutes == BaseMinutes(cfg.arrival_time)
      arrival_minutes == base_minutes + variation
      break_minutes == RoundHalfEven(30 * total_hours, 800)
      work_minutes == RoundHalfEven(total_hours * 60, 100)
      departure_minutes == arrival_minutes + work_minutes
  IN  [arrival |-> FormatTime(arrival_minutes),
       departure |-> FormatTime(departure_minutes),
       break_minutes |-> break_minutes]

(***************************************************************************)
(* _calculate_times_for_all_days, _create_secondary_data and the table     *)
(* rows of generate_pdf.  A day record is a function on its keys, so that  *)
(* "arrival" in day_data is "arrival" \in DOMAIN day_data.                 *)
(***************************************************************************)
\* variant: every day with normal-work hours gets times, a trip day too
NeedsTimes_ByHours(day_data) ==
  /\ day_data.type # "business-trip" \/ day_data.totalHours001 > 0
  /\ "arrival" \notin DOMAIN day_data

\* variant: no look at the stored arrival
NeedsTimes_NoMemo(day_data) == day_data.type # "business-trip"

\* the record gets times computed now
NeedsTimes(day_data) ==
  day_data.type # "business-trip" /\ "arrival" \notin DOMAIN day_data

\* the three assignments day_data[...] = times[...]
WithTimes(day_data, times) ==
  [arrival |-> times.arrival,
   departure |-> times.departure,
   breakMinutes |-> times.break_minutes] @@ day_data

\* the loop of _calculate_times_for_all_days; variations[i] is the value
\* random.randint returns if it is called for record i
CalcTimesForAllDays(table_data, cfg, variations) ==
  [i \in 1..Len(table_data) |->
     IF NeedsTimes(table_data[i])
     THEN WithTimes(table_data[i],
            CalculateTimes(cfg, table_data[i].totalHours001, variations[i]))
     ELSE table_data[i]]

\* the values random.randint has returned for each record, in order
DrawsAfter(table_data, drawn, variations) ==
  [i \in 1..Len(table_data) |->
     IF NeedsTimes(table_data[i])
     THEN Append(drawn[i], variations[i]) ELSE drawn[i]]

\* variant: a business-trip day is copied as it is, normal-work hours too
SecondaryRecord_CopyTrip(day_data, sw) ==
  IF day_data.type = "business-trip"
  THEN day_data
  ELSE LET arrival_minutes_secondary == TimeToMinutes(day_data.departure)
           work_hours_secondary == sw.percent * 8
           break_minutes_secondary ==
             IF sw.include_breaks
             THEN RoundHalfEven(30 * work_hours_secondary, 800) ELSE 0
           work_minutes_secondary == RoundHalfEven(work_hours_secondary * 60, 100)
       IN  [day |-> day_data.day,
            type |-> "normal-work",
            totalHours001 |-> work_hours_secondary,
            totalHours002 |-> 0,
            hasBusinessTrip |-> FALSE,
            arrival |-> FormatTime(arrival_minutes_secondary),
            departure |-> FormatTime(arrival_minutes_secondary
                                       + work_minutes_secondary),
            breakMinutes |-> break_minutes_secondary]

\* variant: the secondary hours are the percentage of the primary day's hours
SecondaryRecord_OfPrimaryHours(day_data, sw) ==
  IF day_data.type = "business-trip"
  THEN [day |-> day_data.day,
        type |-> "business-trip",
        totalHours001 |-> 0,
        totalHours002 |-> day_data.totalHours002,
        hasBusinessTrip |-> TRUE]
  ELSE LET arrival_minutes_secondary == TimeToMinutes(day_data.departure)
           work_hours_secondary == (sw.percent * day_data.totalHours001) \div 100
           break_minutes_secondary ==
             IF sw.include_breaks
             THEN RoundHalfEven(30 * work_hours_secondary, 800) ELSE 0
           work_minutes_secondary == RoundHalfEven(work_hours_secondary * 60, 100)
       IN  [day |-> day_data.day,
            type |-> "normal-work",
            totalHours001 |-> work_hours_secondary,
            totalHours002 |-> 0,
            hasBusinessTrip |-> FALSE,
            arrival |-> FormatTime(arrival_minutes_secondary),
            departure |-> FormatTime(arrival_minutes_secondary
                                       + work_minutes_secondary),
            breakMinutes |-> break_minutes_secondary]

\* one record of secondary_table_data; hours in hundredths: percent / 100 * 8
SecondaryRecord(day_data, sw) ==
  IF day_data.type = "business-trip"
  THEN [day |-> day_data.day,
        type |-> "business-trip",
        totalHours001 |-> 0,
        totalHours002 |-> day_data.totalHours002,
        hasBusinessTrip |-> TRUE]
  ELSE LET departure_minutes_primary == TimeToMinutes(day_data.departure)
           arrival_minutes_secondary == departure_minutes_primary
           work_hours_secondary == sw.percent * 8
           break_minutes_secondary ==
             IF sw.include_breaks
             THEN RoundHalfEven(30 * work_hours_secondary, 800) ELSE 0
           work_minutes_secondary == RoundHalfEven(work_hours_secondary * 60, 100)
           departure_minutes_secondary ==
             arrival_minutes_secondary + work_minutes_secondary
       IN  [day |-> day_data.day,
            type |-> "normal-work",
            totalHours001 |-> work_hours_secondary,
            totalHours002 |-> 0,
            hasBusinessTrip |-> FALSE,
            arrival |-> FormatTime(arrival_minutes_secondary),
            departure |-> FormatTime(departure_minutes_secondary),
            breakMinutes |-> break_minutes_secondary]

SecondaryTable(table_data, sw) ==
  [i \in 1..Len(table_data) |-> SecondaryRecord(table_data[i], sw)]

\* f"{work_hours:.1f}" of hours given in hundredths
FormatHours1f(h) ==
  LET tenths == RoundHalfEven(h, 10)
  IN  IntToStr(tenths \div 10) \o "." \o DigitChar(tenths % 10)

\* one row of the rendered table; the date cell is kept as its day part
RenderRow(day_data) ==
  IF day_data.type = "business-trip"
  THEN <<Format02d(day_data.day), "-", "-", "Sluzbeno potovanje", "-">>
  ELSE LET break_mins == IF "breakMinutes" \in DOMAIN day_data
                         THEN day_data.breakMinutes ELSE 0
       IN  <<Format02d(day_data.day),
             day_data.arrival,
             day_data.departure,
             FormatHours1f(day_data.totalHours001),
             IF break_mins > 0 THEN IntToStr(break_mins) \o " min" ELSE "-">>

RenderTable(table_data) ==
  [i \in 1..Len(table_data) |-> RenderRow(table_data[i])]

(***************************************************************************)
(* _parse_extracted_data: the two label searches, the date range and the   *)
(* month table.                                                            *)
(***************************************************************************)
\* characters matched by \s
IsSpace(c) == c \in {" ", "\n", "\t"}

\* index of the last character of the line that holds position k
RECURSIVE LineEnd(_, _)
LineEnd(text, k) ==
  IF k >= Len(text) \/ Char(text, k + 1) = "\n" THEN k
  ELSE LineEnd(text, k + 1)

\* first index >= j of a character that is no white space, Len + 1 if none
RECURSIVE SkipSpace(_, _)
SkipSpace(text, j) ==
  IF j > Len(text) \/ ~IsSpace(Char(text, j)) THEN j
  ELSE SkipSpace(text, j + 1)

\* \s*([^\n]+) tried at position j: \s* is greedy and gives characters
\* back until [^\n]+ finds one character to start with
GroupAt(text, j) ==
  LET k == SkipSpace(text, j)
      back == {m \in j..Len(text) : Char(text, m) # "\n"}
  IN  IF k <= Len(text)
      THEN [found |-> TRUE, group |-> SubSeq(text, k, LineEnd(text, k))]
      ELSE IF back # {}
      THEN LET m == CHOOSE x \in back : \A y \in back : y <= x
           IN  [found |-> TRUE, group |-> SubSeq(text, m, LineEnd(text, m))]
      ELSE [found |-> FALSE, group |-> ""]

\* re.search(label + r'\s*([^\n]+)', text): leftmost start that matches
LabelSearch(text, label) ==
  LET starts == {i \in 1..(Len(text) - Len(label) + 1) :
                   /\ SubSeq(text, i, i + Len(label) - 1) = label
                   /\ GroupAt(text, i + Len(label)).found}
  IN  IF starts = {} THEN [found |-> FALSE, group |-> ""]
      ELSE GroupAt(text,
             (CHOOSE i \in starts : \A j \in starts : i <= j) + Len(label))

NameLabel == "Ime in priimek:"
PeriodLabel == "STROSKOVNIK ZA ODBOBJE:"

\* (\d{2})\.(\d{2})\.(\d{4}) at position i
DateAt(s, i) ==
  /\ i >= 1
  /\ i + 9 <= Len(s)
  /\ AllDigits(SubSeq(s, i, i + 1))
  /\ Char(s, i + 2) = "."
  /\ AllDigits(SubSeq(s, i + 3, i + 4))
  /\ Char(s, i + 5) = "."
  /\ AllDigits(SubSeq(s, i + 6, i + 9))

\* the whole range pattern at position i
RangeAt(s, i) ==
  /\ DateAt(s, i)
  /\ LET a == SkipSpace(s, i + 10)
     IN  /\ a <= Len(s)
         /\ Char(s, a) = "-"
         /\ DateAt(s, SkipSpace(s, a + 1))

\* re.search of the range pattern in period_str: groups 2 and 3
RangeSearch(s) ==
  LET starts == {i \in 1..Len(s) : RangeAt(s, i)}
  IN  IF starts = {} THEN [found |-> FALSE, start_month |-> "", start_year |-> ""]
      ELSE LET i == CHOOSE x \in starts : \A y \in starts : x <= y
           IN  [found |-> TRUE,
                start_month |-> SubSeq(s, i + 3, i + 4),
                start_year |-> SubSeq(s, i + 6, i + 9)]

\* _get_month_name
MonthName(month_num) ==
  CASE month_num = 1 -> "januar" [] month_num = 2 -> "februar"
    [] month_num = 3 -> "marec" [] month_num = 4 -> "april"
    [] month_num = 5 -> "maj" [] month_num = 6 -> "junij"
    [] month_num = 7 -> "julij" [] month_num = 8 -> "avgust"
    [] month_num = 9 -> "september" [] month_num = 10 -> "oktober"
    [] month_num = 11 -> "november" [] month_num = 12 -> "december"
    [] OTHER -> "oktober"

\* the value None of an Optional[Dict]
NoneData == [is_none |-> TRUE]

\* variant: a period text without a date range fails the document
ParseExtractedData_Strict(text, tables) ==
  LET name_match == LabelSearch(text, NameLabel)
      period_match == LabelSearch(text, PeriodLabel)
      range == RangeSearch(Strip(period_match.group))
      working_days_ == ParseStroskovnikTable(tables)
  IN  IF ~name_match.found \/ ~period_match.found \/ ~range.found
         \/ Len(working_days_) = 0
      THEN NoneData
      ELSE [is_none |-> FALSE,
            name |-> Strip(name_match.group),
            period |-> MonthName(DigitsValue(range.start_month))
                         \o " " \o range.start_year,
            month |-> Lower(MonthName(DigitsValue(range.start_month))),
            year |-> range.start_year,
            working_days |-> Len(working_days_),
            table_data |-> working_days_]

\* _parse_extracted_data
ParseExtractedData(text, tables) ==
  LET name_match == LabelSearch(text, NameLabel)
  IN  IF ~name_match.found THEN NoneData
      ELSE
      LET period_match == LabelSearch(text, PeriodLabel)
      IN  IF ~period_match.found THEN NoneData
          ELSE
          LET period_str == Strip(period_match.group)
              range == RangeSearch(period_str)
              month_name == MonthName(DigitsValue(range.start_month))
              period == IF range.found
                        THEN month_name \o " " \o range.start_year
                        ELSE period_str
              working_days_ == ParseStroskovnikTable(tables)
          IN  IF Len(working_days_) = 0 THEN NoneData
              ELSE [is_none |-> FALSE,
                    name |-> Strip(name_match.group),
                    period |-> period,
                    month |-> IF range.found THEN Lower(month_name)
                              ELSE "oktober",
                    year |-> IF range.found THEN range.start_year ELSE "2025",
                    working_days |-> Len(working_days_),
                    table_data |-> working_days_]

(***************************************************************************)
(* Inputs: the header rows and data rows the extraction may hand over.     *)
(***************************************************************************)
HeaderA == <<"Sifra", "1", "2", "3", "Dejanske ure">>
HeaderB == <<"Projekt", "Opis", "Vrsta", "1", "2", "3", "Dejanske ure">>
\* days out of order, a day given twice, numbers that are no day
HeaderC == <<"Dejanske ure", NoneCell, "", "S 31", "P 2", " 2 ", "45", "0">>
HeaderNoMarker == <<"Datum", "1", "2", "3">>
HeaderNoDays == <<"Dejanske ure", "Opis">>

Headers == {HeaderA, HeaderB, HeaderC, HeaderNoMarker, HeaderNoDays}

RowA == <<"001", "proj", "001", "8", "0", "", "4">>
RowB == <<"001", "x", "001", "7.5", "0,0", "2">>
RowAbc == <<"001", "x", "001", "abc", "8", "2">>
RowNone == <<"P7", NoneCell, " 002 ", NoneCell, "-3", " 1,5 ">>
RowShort == <<"P7", "x", "001", "8">>
RowTotal == <<"Vsota skupaj", "", "001", "8", "8", "8">>

Codes == {"001", "002", "010"}
GenericCells == {<<"4", "", "4">>, <<"", "4", "">>}

GenericRows ==
  {<<"P7", "x", code>> \o cells : code \in Codes, cells \in GenericCells}

Rows == GenericRows \cup {RowA, RowB, RowAbc, RowNone, RowShort, RowTotal}

(***************************************************************************)
(* State.                                                                  *)
(***************************************************************************)
VARIABLES
  pc,            \* position of _parse_stroskovnik_table
  nTables,       \* grids taken from the list so far
  header,        \* table[0] of the grid being read
  day_columns,   \* day -> column index, in dict order
  table_len,     \* len(table) of the grid being read
  row_idx,       \* index of the next row of the grid
  row,           \* the row read last
  nRows,         \* data rows read so far, over all grids
  working_days,  \* the accumulator list
  result         \* the list returned

parseVars == <<pc, nTables, header, day_columns, table_len, row_idx, row,
               nRows, working_days, result>>

VARIABLES
  config,             \* self.config: arrival_time, scattering_minutes
  secondary_work,     \* percent and include_breaks of the secondary work
  data,               \* data["table_data"] of the primary document
  drawn,              \* per primary record: the values random.randint gave
  secondary_data,     \* table_data of the secondary document, <<>> if none
  drawn_secondary,    \* the same for the records of secondary_data
  rendered_primary,   \* table rows of the primary PDF, <<>> if none
  rendered_secondary  \* table rows of the secondary PDF, <<>> if none

timeVars == <<config, secondary_work, data, drawn, secondary_data,
              drawn_secondary, rendered_primary, rendered_secondary>>

VARIABLES
  pdf_files,        \* sorted(pdf_files): the documents of the folder
  secondary_arg,    \* the secondary_work argument of process_folder
  bpc,              \* position of process_folder
  file_idx,         \* index of the document the loop is at
  parsed,           \* data returned by the loop's own parse_pdf
  success_count,
  statuses,         \* per document, in order: what the loop made of it
  outputs,          \* PDFs written so far, as <<document index, kind>>
  batch_result,     \* value returned by process_folder
  exit_code         \* value returned by main, -1 while running

batchVars == <<pdf_files, secondary_arg, bpc, file_idx, parsed, success_count,
               statuses, outputs, batch_result, exit_code>>

VARIABLES
  config_file,     \* the file at config_path: is it there, does it load, its JSON
  argv,            \* the options given on the command line
  mpc,             \* position of main
  config_updated,
  main_secondary,  \* secondary_work of main, [enabled |-> FALSE] for None
  saved_config     \* what save_config has written, if it has

mainVars == <<config_file, argv, mpc, config_updated, main_secondary,
              saved_config>>

vars == <<parseVars, timeVars, batchVars, mainVars>>

\* main is not running
IdleMain ==
  /\ config_file = [exists |-> FALSE]
  /\ argv = [input |-> "in.pdf"]
  /\ mpc = "idle"
  /\ config_updated = FALSE
  /\ main_secondary = [enabled |-> FALSE]
  /\ saved_config = [written |-> FALSE]

\* no folder is being processed
IdleBatch ==
  /\ pdf_files = <<>>
  /\ secondary_arg = [enabled |-> FALSE, percent |-> 0]
  /\ bpc = "idle"
  /\ file_idx = 0
  /\ parsed = NoneData
  /\ success_count = 0
  /\ statuses = <<>>
  /\ outputs = {}
  /\ batch_result = FALSE
  /\ exit_code = -1

\* default_config of load_config
DefaultConfig ==
  [arrival_time |-> "09:00",
   scattering_minutes |-> 10,
   enable_secondary |-> FALSE,
   secondary_name |-> "",
   secondary_percent |-> 0,
   secondary_include_breaks |-> TRUE,
   output_dir |-> "output"]

\* no document is being synthesized
IdleTimes ==
  /\ config = DefaultConfig
  /\ secondary_work = [percent |-> 0, include_breaks |-> TRUE]
  /\ data = <<>>
  /\ drawn = <<>>
  /\ secondary_data = <<>>
  /\ drawn_secondary = <<>>
  /\ rendered_primary = <<>>
  /\ rendered_secondary = <<>>

\* _parse_stroskovnik_table has returned
IdleParse ==
  /\ pc = "done"
  /\ nTables = 0
  /\ header = <<>>
  /\ day_columns = <<>>
  /\ table_len = 0
  /\ row_idx = 0
  /\ row = <<>>
  /\ nRows = 0
  /\ working_days = <<>>
  /\ result = <<>>

InitParse ==
  /\ pc = "table"
  /\ nTables = 0
  /\ header = <<>>
  /\ day_columns = <<>>
  /\ table_len = 0
  /\ row_idx = 0
  /\ row = <<>>
  /\ nRows = 0
  /\ working_days = <<>>
  /\ result = <<>>
  /\ IdleTimes
  /\ IdleBatch
  /\ IdleMain

\* the next grid of the list is the timesheet table
StartTable ==
  /\ pc = "table"
  /\ nTables < MaxTables
  /\ \E h \in Headers, n \in 0..(MaxRows + 1) :
       /\ ~GridSkipped(n, h)
       /\ nRows + (n - 1) <= MaxTotalRows
       /\ header' = h
       /\ day_columns' = DayColumns(h)
       /\ table_len' = n
  /\ row_idx' = 1
  /\ nTables' = nTables + 1
  /\ pc' = "row"
  /\ UNCHANGED <<row, nRows, working_days, result>>
  /\ UNCHANGED <<timeVars, batchVars, mainVars>>

\* the next grid of the list is skipped (continue)
SkipTable ==
  /\ pc = "table"
  /\ nTables < MaxTables
  /\ \E h \in Headers, n \in 0..(MaxRows + 1) : GridSkipped(n, h)
  /\ nTables' = nTables + 1
  /\ UNCHANGED <<pc, header, day_columns, table_len, row_idx, row, nRows,
                 working_days, result>>
  /\ UNCHANGED <<timeVars, batchVars, mainVars>>

\* one pass of the loop over table[1:]
ReadRow ==
  /\ pc = "row"
  /\ row_idx < table_len
  /\ \E r \in Rows :
       /\ row' = r
       /\ working_days' = ProcessRow(working_days, day_columns, r)
  /\ row_idx' = row_idx + 1
  /\ nRows' = nRows + 1
  /\ UNCHANGED <<pc, nTables, header, day_columns, table_len, result>>
  /\ UNCHANGED <<timeVars, batchVars, mainVars>>

\* the grid has no more rows
EndTable ==
  /\ pc = "row"
  /\ row_idx = table_len
  /\ pc' = "table"
  /\ UNCHANGED <<nTables, header, day_columns, table_len, row_idx, row,
                 nRows, working_days, result>>
  /\ UNCHANGED <<timeVars, batchVars, mainVars>>

\* the list of grids is exhausted: return sorted(working_days)
ReturnDays ==
  /\ pc = "table"
  /\ result' = SortedByDay(working_days)
  /\ pc' = "done"
  /\ UNCHANGED <<nTables, header, day_columns, table_len, row_idx, row,
                 nRows, working_days>>
  /\ UNCHANGED <<timeVars, batchVars, mainVars>>

NextParse == StartTable \/ SkipTable \/ ReadRow \/ EndTable \/ ReturnDays

SpecParse == InitParse /\ [][NextParse]_vars

(***************************************************************************)
(* Time synthesis and secondary derivation on one parsed document.  The    *)
(* methods may be called in any order and any number of times.             *)
(***************************************************************************)
ArrivalTimes == {"09:00", "00:00", "23:30"}
Percents == {25, 100}

\* the day records the aggregator can return for one day: normal-work
\* hours, trip hours, both, and a record created by a row of another code
DayKinds(day) ==
  { NewDay(day, 750, "normal-work", "P7"),
    NewDay(day, 800, "business-trip", "P7"),
    UpdateExisting(NewDay(day, 400, "normal-work", "P7"), 400, "business-trip"),
    NewDay(day, 400, "other", "P7") }

TableDatas ==
  UNION { { td \in [1..n -> UNION {DayKinds(day) : day \in 1..n}] :
              \A i \in 1..n : td[i].day = i } : n \in 1..MaxDays }

InitTimes ==
  /\ IdleParse
  /\ IdleBatch
  /\ IdleMain
  /\ config \in [arrival_time : ArrivalTimes,
                 scattering_minutes : {0, MaxScatter}]
  /\ secondary_work \in [percent : Percents, include_breaks : BOOLEAN]
  /\ data \in TableDatas
  /\ drawn = [i \in 1..Len(data) |-> <<>>]
  /\ secondary_data = <<>>
  /\ drawn_secondary = <<>>
  /\ rendered_primary = <<>>
  /\ rendered_secondary = <<>>

\* random.randint(-scattering, scattering), once per record if called
Variations(table_data) ==
  [{i \in 1..Len(table_data) : NeedsTimes(table_data[i])} ->
     (0 - config.scattering_minutes)..config.scattering_minutes]

\* _calculate_times_for_all_days(data)
CalculateTimesPrimary ==
  /\ \E v \in Variations(data) :
       /\ data' = CalcTimesForAllDays(data, config, v)
       /\ drawn' = DrawsAfter(data, drawn, v)
  /\ UNCHANGED <<config, secondary_work, secondary_data, drawn_secondary,
                 rendered_primary, rendered_secondary>>
  /\ UNCHANGED <<parseVars, batchVars, mainVars>>

\* generate_pdf(data, ...): times are ensured, then the table is built
GeneratePdfPrimary ==
  /\ \E v \in Variations(data) :
       /\ data' = CalcTimesForAllDays(data, config, v)
       /\ drawn' = DrawsAfter(data, drawn, v)
  /\ rendered_primary' = RenderTable(data')
  /\ UNCHANGED <<config, secondary_work, secondary_data, drawn_secondary,
                 rendered_secondary>>
  /\ UNCHANGED <<parseVars, batchVars, mainVars>>

\* _create_secondary_data(data, secondary_work): times of the primary are
\* ensured, then a fresh record list is derived from it
CreateSecondaryData ==
  /\ \E v \in Variations(data) :
       /\ data' = CalcTimesForAllDays(data, config, v)
       /\ drawn' = DrawsAfter(data, drawn, v)
  /\ secondary_data' = SecondaryTable(data', secondary_work)
  /\ drawn_secondary' = [i \in 1..Len(data) |-> <<>>]
  /\ UNCHANGED <<config, secondary_work, rendered_primary, rendered_secondary>>
  /\ UNCHANGED <<parseVars, batchVars, mainVars>>

\* generate_pdf(secondary_data, ...)
GeneratePdfSecondary ==
  /\ secondary_data # <<>>
  /\ \E v \in Variations(secondary_data) :
       /\ secondary_data' = CalcTimesForAllDays(secondary_data, config, v)
       /\ drawn_secondary' = DrawsAfter(secondary_data, drawn_secondary, v)
  /\ rendered_secondary' = RenderTable(secondary_data')
  /\ UNCHANGED <<config, secondary_work, data, drawn, rendered_primary>>
  /\ UNCHANGED <<parseVars, batchVars, mainVars>>

NextTimes ==
  \/ CalculateTimesPrimary
  \/ GeneratePdfPrimary
  \/ CreateSecondaryData
  \/ GeneratePdfSecondary

SpecTimes == InitTimes /\ [][NextTimes]_vars

(***************************************************************************)
(* The same methods on a one-day document, for every percentage of a full  *)
(* day the secondary work may be configured with.                          *)
(***************************************************************************)
AllPercents == 0..100

OneDayTables == {td \in TableDatas : Len(td) = 1}

InitPercent ==
  /\ IdleParse
  /\ IdleBatch
  /\ IdleMain
  /\ config \in [arrival_time : ArrivalTimes,
                 scattering_minutes : {0, MaxScatter}]
  /\ secondary_work \in [percent : AllPercents, include_breaks : BOOLEAN]
  /\ data \in OneDayTables
  /\ drawn = [i \in 1..Len(data) |-> <<>>]
  /\ secondary_data = <<>>
  /\ drawn_secondary = <<>>
  /\ rendered_primary = <<>>
  /\ rendered_secondary = <<>>

SpecPercent == InitPercent /\ [][NextTimes]_vars

(***************************************************************************)
(* Batch processing: process_folder, process_file, parse_pdf and main.     *)
(* A document is its page text, its grids and what the two external        *)
(* collaborators do with it: extract is "ok", "raise" (pdfplumber raises)  *)
(* or "raise_on_reread" (it raises when process_file opens the file        *)
(* again); render is "ok", "raise" (building the primary PDF raises) or    *)
(* "raise_secondary" (building the secondary PDF raises).                  *)
(***************************************************************************)
NameLine == "Ime in priimek: Ana Novak\n"
PeriodLine == "STROSKOVNIK ZA ODBOBJE: 01.09.2025 - 30.09.2025\n"
PeriodLineMonth13 == "STROSKOVNIK ZA ODBOBJE: 01.13.2024-31.13.2024\n"
PeriodLineNoRange == "STROSKOVNIK ZA ODBOBJE: september 2025\n"
PeriodLineOtherLabel == "STROSKOVNIK ZA OBDOBJE: 01.09.2025 - 30.09.2025\n"

TablesB == << <<HeaderB, RowB>> >>
TablesNoMarker == << <<HeaderNoMarker, RowB>> >>

Doc(text, tables, extract, render) ==
  [text |-> text, tables |-> tables, extract |-> extract, render |-> render]

DocGood == Doc(NameLine \o PeriodLine, TablesB, "ok", "ok")
DocMonth13 == Doc(PeriodLineMonth13 \o NameLine, TablesB, "ok", "ok")
DocNoRange == Doc(NameLine \o PeriodLineNoRange, TablesB, "ok", "ok")
DocNoName == Doc(PeriodLine, TablesB, "ok", "ok")
DocNoPeriod == Doc(NameLine, TablesB, "ok", "ok")
DocOtherLabel == Doc(NameLine \o PeriodLineOtherLabel, TablesB, "ok", "ok")
DocNoTable == Doc(NameLine \o PeriodLine, TablesNoMarker, "ok", "ok")
DocNoGrids == Doc(NameLine \o PeriodLine, <<>>, "ok", "ok")
DocUnreadable == Doc(NameLine \o PeriodLine, TablesB, "raise", "ok")
DocRereadFails == Doc(NameLine \o PeriodLine, TablesB, "raise_on_reread", "ok")
DocRenderFails == Doc(NameLine \o PeriodLine, TablesB, "ok", "raise")
DocSecondaryFails == Doc(NameLine \o PeriodLine, TablesB, "ok", "raise_secondary")

Docs == {DocGood, DocMonth13, DocNoRange, DocNoName, DocNoPeriod,
         DocOtherLabel, DocNoTable, DocNoGrids, DocUnreadable, DocRereadFails,
         DocRenderFails, DocSecondaryFails}

\* parse_pdf: any exception of the extraction is turned into None;
\* reread tells the call process_file makes from the one of the loop
ParsePdf(doc, reread) ==
  IF doc.extract = "raise" \/ (reread /\ doc.extract = "raise_on_reread")
  THEN NoneData
  ELSE ParseExtractedData(doc.text, doc.tables)

\* the secondary PDF is asked for (config["enable_secondary"] is False)
SecondaryWanted(sw) == sw.enabled /\ sw.percent > 0

\* variant: the loop stops at the first document that fails
AfterDocument_Break(idx, n, ok) == IF ok THEN idx + 1 ELSE n + 1

\* the for loop goes on with the next document, whatever happened
AfterDocument(idx, n, ok) == idx + 1

InitBatch ==
  /\ IdleParse
  /\ IdleTimes
  /\ IdleMain
  /\ pdf_files \in UNION {[1..n -> Docs] : n \in 0..MaxDocs}
  /\ secondary_arg \in {[enabled |-> FALSE, percent |-> 0],
                        [enabled |-> TRUE, percent |-> 25]}
  /\ bpc = "start"
  /\ file_idx = 0
  /\ parsed = NoneData
  /\ success_count = 0
  /\ statuses = <<>>
  /\ outputs = {}
  /\ batch_result = FALSE
  /\ exit_code = -1

\* "No PDF files found": process_folder returns False, main returns 1
FolderEmpty ==
  /\ bpc = "start"
  /\ Len(pdf_files) = 0
  /\ batch_result' = FALSE
  /\ exit_code' = 1
  /\ bpc' = "done"
  /\ UNCHANGED <<pdf_files, secondary_arg, file_idx, parsed, success_count,
                 statuses, outputs>>
  /\ UNCHANGED <<parseVars, timeVars, mainVars>>

\* success_count = 0 and the loop over sorted(pdf_files) is entered
FolderStart ==
  /\ bpc = "start"
  /\ Len(pdf_files) > 0
  /\ success_count' = 0
  /\ file_idx' = 1
  /\ bpc' = "loop"
  /\ UNCHANGED <<pdf_files, secondary_arg, parsed, statuses, outputs,
                 batch_result, exit_code>>
  /\ UNCHANGED <<parseVars, timeVars, mainVars>>

\* the loop's parse_pdf returns None: "skipping..."
FolderParseFails ==
  /\ bpc = "loop"
  /\ file_idx <= Len(pdf_files)
  /\ ParsePdf(pdf_files[file_idx], FALSE).is_none
  /\ statuses' = Append(statuses, "skipped")
  /\ file_idx' = AfterDocument(file_idx, Len(pdf_files), FALSE)
  /\ UNCHANGED <<pdf_files, secondary_arg, bpc, parsed, success_count,
                 outputs, batch_result, exit_code>>
  /\ UNCHANGED <<parseVars, timeVars, mainVars>>

\* the loop's parse_pdf returns data: process_file is called
FolderParseOk ==
  /\ bpc = "loop"
  /\ file_idx <= Len(pdf_files)
  /\ ~ParsePdf(pdf_files[file_idx], FALSE).is_none
  /\ parsed' = ParsePdf(pdf_files[file_idx], FALSE)
  /\ bpc' = "file"
  /\ UNCHANGED <<pdf_files, secondary_arg, file_idx, success_count, statuses,
                 outputs, batch_result, exit_code>>
  /\ UNCHANGED <<parseVars, timeVars, mainVars>>

\* process_file returns False: its own parse_pdf gave None
FileParseFails ==
  /\ bpc = "file"
  /\ ParsePdf(pdf_files[file_idx], TRUE).is_none
  /\ statuses' = Append(statuses, "failed")
  /\ file_idx' = AfterDocument(file_idx, Len(pdf_files), FALSE)
  /\ bpc' = "loop"
  /\ UNCHANGED <<pdf_files, secondary_arg, parsed, success_count, outputs,
                 batch_result, exit_code>>
  /\ UNCHANGED <<parseVars, timeVars, mainVars>>

\* process_file returns False: generate_pdf of the primary raised
FileRenderFails ==
  /\ bpc = "file"
  /\ ~ParsePdf(pdf_files[file_idx], TRUE).is_none
  /\ pdf_files[file_idx].render = "raise"
  /\ statuses' = Append(statuses, "failed")
  /\ file_idx' = AfterDocument(file_idx, Len(pdf_files), FALSE)
  /\ bpc' = "loop"
  /\ UNCHANGED <<pdf_files, secondary_arg, parsed, success_count, outputs,
                 batch_result, exit_code>>
  /\ UNCHANGED <<parseVars, timeVars, mainVars>>

\* process_file returns False: the primary was written, then deriving or
\* building the secondary raised
FileSecondaryFails ==
  /\ bpc = "file"
  /\ ~ParsePdf(pdf_files[file_idx], TRUE).is_none
  /\ pdf_files[file_idx].render = "raise_secondary"
  /\ SecondaryWanted(secondary_arg)
  /\ outputs' = outputs \cup {<<file_idx, "primary">>}
  /\ statuses' = Append(statuses, "failed")
  /\ file_idx' = AfterDocument(file_idx, Len(pdf_files), FALSE)
  /\ bpc' = "loop"
  /\ UNCHANGED <<pdf_files, secondary_arg, parsed, success_count,
                 batch_result, exit_code>>
  /\ UNCHANGED <<parseVars, timeVars, mainVars>>

\* process_file returns True: success_count += 1
FileOk ==
  /\ bpc = "file"
  /\ ~ParsePdf(pdf_files[file_idx], TRUE).is_none
  /\ pdf_files[file_idx].render # "raise"
  /\ ~(pdf_files[file_idx].render = "raise_secondary"
         /\ SecondaryWanted(secondary_arg))
  /\ outputs' = outputs \cup {<<file_idx, "primary">>}
                  \cup (IF SecondaryWanted(secondary_arg)
                        THEN {<<file_idx, "secondary">>} ELSE {})
  /\ success_count' = success_count + 1
  /\ statuses' = Append(statuses, "ok")
  /\ file_idx' = AfterDocument(file_idx, Len(pdf_files), TRUE)
  /\ bpc' = "loop"
  /\ UNCHANGED <<pdf_files, secondary_arg, parsed, batch_result, exit_code>>
  /\ UNCHANGED <<parseVars, timeVars, mainVars>>

\* the loop is over: return success_count > 0; main maps it to 0 or 1
FolderDone ==
  /\ bpc = "loop"
  /\ file_idx > Len(pdf_files)
  /\ batch_result' = (success_count > 0)
  /\ exit_code' = IF success_count > 0 THEN 0 ELSE 1
  /\ bpc' = "done"
  /\ UNCHANGED <<pdf_files, secondary_arg, file_idx, parsed, success_count,
                 statuses, outputs>>
  /\ UNCHANGED <<parseVars, timeVars, mainVars>>

NextBatch ==
  \/ FolderEmpty
  \/ FolderStart
  \/ FolderParseFails
  \/ FolderParseOk
  \/ FileParseFails
  \/ FileRenderFails
  \/ FileSecondaryFails
  \/ FileOk
  \/ FolderDone

SpecBatch == InitBatch /\ [][NextBatch]_vars

(***************************************************************************)
(* The configuration: load_config at construction, then the overrides and  *)
(* the secondary work set up by main from the command line, then           *)
(* save_config.  A JSON object and the options given are records on the    *)
(* keys present.                                                           *)
(***************************************************************************)
NoEntry == [k \in {} |-> k]

\* JSON objects a config file may hold: any of the two keys missing,
\* values equal to and different from the defaults, other keys
FileJsons ==
  { a @@ s @@ o :
      a \in {NoEntry, [arrival_time |-> "08:00"], [arrival_time |-> "09:00"]},
      s \in {NoEntry, [scattering_minutes |-> 10], [scattering_minutes |-> 5],
             [scattering_minutes |-> 0]},
      o \in {NoEntry, [theme |-> "dark"],
             [enable_secondary |-> TRUE, secondary_percent |-> 50]} }

\* no file (or no -c), a file json.load fails on, a file that loads
ConfigFiles ==
  {[exists |-> FALSE], [exists |-> TRUE, loads |-> FALSE]}
    \cup {[exists |-> TRUE, loads |-> TRUE, json |-> j] : j \in FileJsons}

\* the options a command line may give
Argvs ==
  { [input |-> "in.pdf"] @@ a @@ s @@ o :
      a \in {NoEntry, [arrival_time |-> "09:00"], [arrival_time |-> "07:30"]},
      s \in {NoEntry, [scattering |-> 10], [scattering |-> 3]},
      o \in {NoEntry, [secondary |-> TRUE],
             [secondary |-> TRUE, secondary_percent |-> 50,
              secondary_no_breaks |-> TRUE]} }

\* load_config: dict.update lays the file's keys over the defaults
LoadConfig(file) ==
  IF file.exists /\ file.loads THEN file.json @@ DefaultConfig
  ELSE DefaultConfig

\* the value of an option, its default if the option is not given
OptionOr(av, key, default) ==
  IF key \in DOMAIN av THEN av[key] ELSE default

\* parser.parse_args(): an option that is not given has its default
ParseArgs(av) ==
  [arrival_time |-> OptionOr(av, "arrival_time", "09:00"),
   scattering |-> OptionOr(av, "scattering", 10),
   secondary |-> OptionOr(av, "secondary", FALSE),
   secondary_name |-> OptionOr(av, "secondary_name", ""),
   secondary_percent |-> OptionOr(av, "secondary_percent", 0),
   secondary_no_breaks |-> OptionOr(av, "secondary_no_breaks", FALSE)]

\* dict assignment config[key] = value
SetKey(cfg, key, value) ==
  [k \in DOMAIN cfg \cup {key} |-> IF k = key THEN value ELSE cfg[k]]

\* "Override config with command line args": the two if statements
OverrideConfig(cfg, args) ==
  LET c1 == IF args.arrival_time # "09:00"
            THEN SetKey(cfg, "arrival_time", args.arrival_time) ELSE cfg
  IN  IF args.scattering # 10
      THEN SetKey(c1, "scattering_minutes", args.scattering) ELSE c1

\* secondary_work of main: from the command line, else from the config
MainSecondary(cfg, args) ==
  IF args.secondary /\ args.secondary_percent > 0
  THEN [enabled |-> TRUE,
        name |-> IF args.secondary_name # ""
                 THEN args.secondary_name ELSE "Secondary",
        percent |-> args.secondary_percent,
        include_breaks |-> ~args.secondary_no_breaks]
  ELSE IF cfg.enable_secondary /\ cfg.secondary_percent > 0
  THEN [enabled |-> TRUE,
        name |-> cfg.secondary_name,
        percent |-> cfg.secondary_percent,
        include_breaks |-> cfg.secondary_include_breaks]
  ELSE [enabled |-> FALSE]

\* the "Update config" assignments of the command-line branch
SecondaryIntoConfig(cfg, args) ==
  IF args.secondary /\ args.secondary_percent > 0
  THEN LET sw == MainSecondary(cfg, args)
       IN  SetKey(SetKey(SetKey(SetKey(cfg,
             "enable_secondary", TRUE),
             "secondary_name", sw.name),
             "secondary_percent", sw.percent),
             "secondary_include_breaks", sw.include_breaks)
  ELSE cfg

\* pdf_parser = StroskovnikPDFParser(args.config) has run
InitMain ==
  /\ IdleParse
  /\ IdleBatch
  /\ config_file \in ConfigFiles
  /\ argv \in Argvs
  /\ config = LoadConfig(config_file)
  /\ secondary_work = [percent |-> 0, include_breaks |-> TRUE]
  /\ data = <<>>
  /\ drawn = <<>>
  /\ secondary_data = <<>>
  /\ drawn_secondary = <<>>
  /\ rendered_primary = <<>>
  /\ rendered_secondary = <<>>
  /\ mpc = "loaded"
  /\ config_updated = FALSE
  /\ main_secondary = [enabled |-> FALSE]
  /\ saved_config = [written |-> FALSE]

\* main from "Override config with command line args" to the set-up of
\* the secondary work
MainOverride ==
  /\ mpc = "loaded"
  /\ LET args == ParseArgs(argv)
         overridden == OverrideConfig(config, args)
     IN  /\ config' = SecondaryIntoConfig(overridden, args)
         /\ main_secondary' = MainSecondary(overridden, args)
         /\ config_updated' = \/ args.arrival_time # "09:00"
                              \/ args.scattering # 10
                              \/ (args.secondary /\ args.secondary_percent > 0)
  /\ mpc' = "merged"
  /\ UNCHANGED <<config_file, argv, saved_config>>
  /\ UNCHANGED <<secondary_work, data, drawn, secondary_data, drawn_secondary,
                 rendered_primary, rendered_secondary>>
  /\ UNCHANGED <<parseVars, batchVars>>

\* "Save config if it was updated", after the processing
MainSave ==
  /\ mpc = "merged"
  /\ saved_config' = IF config_updated
                     THEN [written |-> TRUE, json |-> config]
                     ELSE saved_config
  /\ mpc' = "done"
  /\ UNCHANGED <<config_file, argv, config_updated, main_secondary>>
  /\ UNCHANGED <<timeVars, parseVars, batchVars>>

NextMain == MainOverride \/ MainSave

SpecMain == InitMain /\ [][NextMain]_vars

(***************************************************************************)
(* Properties of the aggregator.                                           *)
(***************************************************************************)
\* the record of a day in a list of records, as a set (empty or a singleton)
RecordsOf(recs, day) == {recs[k] : k \in {j \in 1..Len(recs) : recs[j].day = day}}

Hours001(recs, day) ==
  IF RecordsOf(recs, day) = {} THEN 0
  ELSE (CHOOSE d \in RecordsOf(recs, day) : TRUE).totalHours001

Hours002(recs, day) ==
  IF RecordsOf(recs, day) = {} THEN 0
  ELSE (CHOOSE d \in RecordsOf(recs, day) : TRUE).totalHours002

\* a data row has just been folded into working_days
RowFolded == pc = "row" /\ row_idx > 1

\* the whole input was the single grid <<h, r>>
SingleRowGridDone(h, r) ==
  /\ pc = "done"
  /\ nTables = 1
  /\ header = h
  /\ table_len = 2
  /\ nRows = 1
  /\ row = r

\* C1: every DayRecord, in the accumulator and in the returned list, has a
\* day in 1..31 and totalHours equal to totalHours001 + totalHours002,
\* whatever rows, codes, cells and grids were folded in.
C1_DayRangeAndTotal ==
  \A recs \in {working_days, result} :
    \A k \in 1..Len(recs) :
      /\ recs[k].day \in 1..31
      /\ recs[k].totalHours = recs[k].totalHours001 + recs[k].totalHours002

\* two grids were folded and a returned record carries hours of both codes
C1_Witness ==
  /\ pc = "done"
  /\ nTables = 2
  /\ nRows >= 2
  /\ \E k \in 1..Len(result) :
       /\ result[k].totalHours001 > 0
       /\ result[k].totalHours002 > 0
       /\ result[k].day = 31

\* C2: sticky dominance.  A record that has type business-trip keeps its
\* day, its type and hasBusinessTrip = TRUE in every later step, and a set
\* hasBusinessTrip is never reset; the returned list carries the same type.
C2_StickyBusinessTrip ==
  [][ /\ \A k \in 1..Len(working_days) :
           /\ k <= Len(working_days')
           /\ working_days'[k].day = working_days[k].day
           /\ working_days[k].type = "business-trip"
                => /\ working_days'[k].type = "business-trip"
                   /\ working_days'[k].hasBusinessTrip
           /\ working_days[k].hasBusinessTrip
                => working_days'[k].hasBusinessTrip
      /\ pc' = "done" =>
           \A k \in 1..Len(working_days') :
             working_days'[k].type = "business-trip"
               => \E j \in 1..Len(result') :
                    /\ result'[j].day = working_days'[k].day
                    /\ result'[j].type = "business-trip"
                    /\ result'[j].hasBusinessTrip
    ]_vars

\* a normal-work row was folded into a day that already had trip hours
C2_Witness ==
  /\ RowFolded
  /\ header = HeaderB
  /\ row = <<"P7", "x", "001", "4", "", "4">>
  /\ \E k \in 1..Len(working_days) :
       /\ working_days[k].day = 1
       /\ working_days[k].type = "business-trip"
       /\ working_days[k].hasBusinessTrip
       /\ working_days[k].totalHours002 > 0
       /\ working_days[k].totalHours001 = 400

\* C3: the accumulator holds at most one record per day; the returned list
\* holds exactly the accumulator's days, one record each, in strictly
\* increasing order of day.
C3_OnePerDayOrdered ==
  /\ \A i, j \in 1..Len(working_days) :
       working_days[i].day = working_days[j].day => i = j
  /\ pc = "done" =>
       /\ \A i \in 1..(Len(result) - 1) : result[i].day < result[i + 1].day
       /\ Len(result) = Len(working_days)
       /\ \A k \in 1..Len(working_days) :
            RecordsOf(result, working_days[k].day) = {working_days[k]}

\* two grids contributed to one day, and the accumulator was out of order
C3_Witness ==
  /\ pc = "done"
  /\ nTables = 2
  /\ Len(result) >= 2
  /\ result # working_days
  /\ \E k \in 1..Len(result) : result[k].totalHours >= 800

\* C7 as stated: Example A gives day 1 = 8 h normal-work and day 3 = 4 h
\* business-trip.
C7_ExampleA_AsStated ==
  SingleRowGridDone(HeaderA, RowA) =>
    /\ \E d \in RecordsOf(result, 1) :
         d.totalHours001 = 800 /\ d.type = "normal-work"
    /\ \E d \in RecordsOf(result, 3) :
         d.totalHours002 = 400 /\ d.type = "business-trip"

\* C7: Example A (header HeaderA, single row RowA) yields exactly two
\* records: day 2 with 1 hour of normal-work (the code cell "001" stands
\* under header "2") and day 3 with 8 hours of normal-work; there is no
\* day-1 record and no business-trip record.
C7_ExampleA ==
  SingleRowGridDone(HeaderA, RowA) =>
    result = << NewDay(2, 100, "normal-work", "001"),
                NewDay(3, 800, "normal-work", "001") >>

C7_Witness == SingleRowGridDone(HeaderA, RowA) /\ Len(result) = 2

\* cells that must count as nothing, and cells that are hours (hundredths)
MalformedCells == {"abc", NoneCell, "", "0", "0.0", "0,0", "-3", "proj", "x"}
PositiveCells ==
  {"8", "7.5", "2", "4", " 1,5 ", "001", "002", " 002 ", "010"}

CellHours(cell) ==
  CASE cell = "8" -> 800 [] cell = "7.5" -> 750 [] cell = "2" -> 200
    [] cell = "4" -> 400 [] cell = " 1,5 " -> 150 [] cell = "001" -> 100
    [] cell = "002" -> 200 [] cell = " 002 " -> 200 [] cell = "010" -> 1000

\* C8: in a row that is read, a malformed hours cell leaves the record of
\* its day untouched (and creates none), while every positive cell of the
\* same row under code 001 or 002 is still added to its day; comma decimals
\* count as periods.  Example B gives day 1 = 7.5 h, nothing for day 2 and
\* day 3 = 2 h, all normal-work.
C8_MalformedCellIgnored ==
  [][ /\ (nRows' = nRows + 1 /\ ~RowSkipped(day_columns, row')) =>
           \A k \in 1..Len(day_columns) :
             LET day == day_columns[k].day
                 cell == row'[day_columns[k].idx + 1]
                 wt == WorkType(Strip(Str(row'[3])))
             IN  /\ cell \in MalformedCells \cup PositiveCells
                 /\ cell \in MalformedCells =>
                      RecordsOf(working_days', day) = RecordsOf(working_days, day)
                 /\ (cell \in PositiveCells /\ wt = "normal-work") =>
                      /\ Hours001(working_days', day)
                           = Hours001(working_days, day) + CellHours(cell)
                      /\ Hours002(working_days', day) = Hours002(working_days, day)
                 /\ (cell \in PositiveCells /\ wt = "business-trip") =>
                      /\ Hours002(working_days', day)
                           = Hours002(working_days, day) + CellHours(cell)
                      /\ Hours001(working_days', day) = Hours001(working_days, day)
      /\ SingleRowGridDone(HeaderB, RowB)' =>
           result' = << NewDay(1, 750, "normal-work", "001"),
                        NewDay(3, 200, "normal-work", "001") >>
    ]_vars

\* the row with "abc" was folded: its other two cells were added
C8_Witness ==
  /\ RowFolded
  /\ header = HeaderB
  /\ row = RowAbc
  /\ nRows = 1
  /\ working_days = << NewDay(2, 800, "normal-work", "001"),
                       NewDay(3, 200, "normal-work", "001") >>

\* Example B was aggregated
ExampleBDone == SingleRowGridDone(HeaderB, RowB) /\ Len(result) = 2

\* the first cell of the row marks it as a total/summary row
TotalRow(r) ==
  LET first_cell == IF Len(r) > 0 THEN Lower(Strip(Str(r[1]))) ELSE ""
  IN  \E keyword \in TotalKeywords : Contains(first_cell, keyword)

\* C14 as stated: for every data row read from an accepted grid that is no
\* total row, and every (day, column index) of the day-column map whose
\* index lies within the row, a positive numeric cell under code 001 or
\* 002 is added to that day's accumulator, also when the row is shorter
\* than the largest day-column index.
C14_AsStated ==
  [][ (nRows' = nRows + 1 /\ ~TotalRow(row')) =>
        \A k \in 1..Len(day_columns) :
          day_columns[k].idx < Len(row') =>
            LET day == day_columns[k].day
                cell == row'[day_columns[k].idx + 1]
                wt == WorkType(IF Len(row') > 2
                               THEN Strip(Str(row'[3])) ELSE "001")
            IN  /\ (cell \in PositiveCells /\ wt = "normal-work") =>
                     Hours001(working_days', day)
                       = Hours001(working_days, day) + CellHours(cell)
                /\ (cell \in PositiveCells /\ wt = "business-trip") =>
                     Hours002(working_days', day)
                       = Hours002(working_days, day) + CellHours(cell)
    ]_vars

\* the step reads a row of a code other than 001 and 002 that is not skipped
OtherRowRead ==
  /\ nRows' = nRows + 1
  /\ ~RowSkipped(day_columns, row')
  /\ WorkType(IF Len(row') > 2 THEN Strip(Str(row'[3])) ELSE "001") = "other"

\* C17 as stated: every record has totalHours > 0, and a row of a code
\* other than 001 and 002 neither creates a record nor changes one.
C17_AsStated ==
  /\ [](\A recs \in {working_days, result} :
          \A k \in 1..Len(recs) : recs[k].totalHours > 0)
  /\ [][OtherRowRead => working_days' = working_days]_vars

\* what a row of another code does to the record of one day column
OtherCellEffect(k) ==
  LET day == day_columns[k].day
      cell == row'[day_columns[k].idx + 1]
      old == RecordsOf(working_days, day)
      new == RecordsOf(working_days', day)
  IN  /\ cell \in MalformedCells \cup PositiveCells
      /\ old # {} => new = old
      /\ (old = {} /\ cell \in MalformedCells) => new = {}
      /\ (old = {} /\ cell \in PositiveCells) =>
           /\ Cardinality(new) = 1
           /\ \A d \in new :
                /\ d.totalHours001 = 0
                /\ d.totalHours002 = 0
                /\ d.totalHours = 0
                /\ d.type = "normal-work"
                /\ ~d.hasBusinessTrip

\* C17: every record has totalHours >= 0, and totalHours > 0 exactly when
\* hours of code 001 or 002 were added to it.  A row of a code other than
\* 001 and 002 changes no field of an existing record; a positive cell of
\* such a row on a day without a record creates one with totalHours001 =
\* totalHours002 = totalHours = 0 and type normal-work.
C17_OtherCodeAddsNoHours ==
  /\ [](\A recs \in {working_days, result} :
          \A k \in 1..Len(recs) :
            /\ recs[k].totalHours >= 0
            /\ recs[k].totalHours > 0
                 <=> (recs[k].totalHours001 > 0 \/ recs[k].totalHours002 > 0))
  /\ [][OtherRowRead => \A k \in 1..Len(day_columns) : OtherCellEffect(k)]_vars

\* a row of code 010 met a day with 8 hours of normal-work and a day
\* without a record: the first is as it was, the second exists with 0 hours
C17_Witness ==
  /\ RowFolded
  /\ header = HeaderB
  /\ row = <<"P7", "x", "010", "4", "", "4">>
  /\ \E d \in RecordsOf(working_days, 1) : d.totalHours = 800
  /\ \E d \in RecordsOf(working_days, 3) :
       d.totalHours = 0 /\ d.type = "normal-work"

(***************************************************************************)
(* Properties of time synthesis and secondary derivation.                  *)
(***************************************************************************)
TimeKeys == {"arrival", "departure", "breakMinutes"}

\* records of the same list keep their stored times and draws over a step
TimesKept(td, td2, dr, dr2) ==
  \A i \in 1..Len(td) :
    (td[i].type = "normal-work" /\ "arrival" \in DOMAIN td[i]) =>
      /\ TimeKeys \subseteq DOMAIN td2[i]
      /\ td2[i].arrival = td[i].arrival
      /\ td2[i].departure = td[i].departure
      /\ td2[i].breakMinutes = td[i].breakMinutes
      /\ dr2[i] = dr[i]

\* C4: memoization.  Once a normal-work record of the primary document has
\* stored times, no call of _calculate_times_for_all_days, generate_pdf or
\* _create_secondary_data changes its arrival, departure or breakMinutes or
\* draws a random offset for it; a record never sees more than one draw.
C4_TimesMemoized ==
  [][ /\ TimesKept(data, data', drawn, drawn')
      /\ \A i \in 1..Len(data') : Len(drawn'[i]) <= 1
      /\ \A i \in 1..Len(data') :
           (data'[i].type = "normal-work") =>
             (Len(drawn'[i]) = 1 <=> "arrival" \in DOMAIN data'[i])
    ]_vars

\* every call has been made on a record whose offset was really drawn
C4_Witness ==
  /\ config.scattering_minutes > 0
  /\ rendered_primary # <<>>
  /\ secondary_data # <<>>
  /\ rendered_secondary # <<>>
  /\ \E i \in 1..Len(data) :
       /\ data[i].type = "normal-work"
       /\ data[i].totalHours001 = 750
       /\ "arrival" \in DOMAIN data[i]
       /\ drawn[i] = <<0 - config.scattering_minutes>>

\* C5: for every normal-work record with stored times, with base the
\* configured arrival time in minutes and offset the value drawn for it:
\* offset lies in [-scattering, +scattering], arrival = base + offset,
\* departure = arrival + round(totalHours001 * 60) >= arrival and
\* breakMinutes = round(30 * totalHours001 / 8) >= 0 (a rounded value is
\* at most one half away from the exact one).
C5_TimesFromHours ==
  \A i \in 1..Len(data) :
    (data[i].type = "normal-work" /\ "arrival" \in DOMAIN data[i]) =>
      LET base == BaseMinutes(config.arrival_time)
          offset == drawn[i][1]
          arr == TimeToMinutes(data[i].arrival)
          dep == TimeToMinutes(data[i].departure)
          brk == data[i].breakMinutes
          h == data[i].totalHours001
      IN  /\ 0 - config.scattering_minutes <= offset
          /\ offset <= config.scattering_minutes
          /\ arr = base + offset
          /\ dep >= arr
          /\ 2 * (100 * (dep - arr) - 60 * h) \in -100..100
          /\ 2 * (800 * brk - 30 * h) \in -800..800
          /\ brk >= 0

\* a record of 7.5 hours got a non-zero offset: 450 minutes, 28 of break
C5_Witness ==
  \E i \in 1..Len(data) :
    /\ data[i].type = "normal-work"
    /\ data[i].totalHours001 = 750
    /\ "arrival" \in DOMAIN data[i]
    /\ drawn[i] = <<MaxScatter>>
    /\ TimeToMinutes(data[i].departure) = TimeToMinutes(data[i].arrival) + 450
    /\ data[i].breakMinutes = 28

\* C6: secondary contiguity.  For every normal-work day the arrival string
\* of the secondary record equals the departure string stored on the
\* primary record of that day, also for departures below 00:00 and from
\* 24:00 on, and the primary document shows that same stored departure.
C6_SecondaryContiguity ==
  /\ secondary_data # <<>> =>
       /\ Len(secondary_data) = Len(data)
       /\ \A i \in 1..Len(data) :
            data[i].type # "business-trip" =>
              /\ secondary_data[i].day = data[i].day
              /\ secondary_data[i].arrival = data[i].departure
  /\ rendered_primary # <<>> =>
       \A i \in 1..Len(data) :
         data[i].type # "business-trip" =>
           rendered_primary[i][3] = data[i].departure
  /\ rendered_secondary # <<>> =>
       \A i \in 1..Len(data) :
         data[i].type # "business-trip" =>
           rendered_secondary[i][2] = data[i].departure

\* both documents exist and a primary departure lies before 00:00
C6_Witness ==
  /\ secondary_data # <<>>
  /\ rendered_primary # <<>>
  /\ rendered_secondary # <<>>
  /\ \E i \in 1..Len(data) :
       /\ data[i].type = "normal-work"
       /\ data[i].departure = "-1:59"
       /\ secondary_data[i].arrival = "-1:59"

\* both documents exist and a primary departure lies after 24:00
C6_WitnessLate ==
  /\ secondary_data # <<>>
  /\ rendered_primary # <<>>
  /\ \E i \in 1..Len(data) :
       /\ data[i].type = "normal-work"
       /\ TimeToMinutes(data[i].departure) >= 24 * 60
       /\ secondary_data[i].arrival = data[i].departure

\* C11: for every normal-work primary day and every percentage 0..100 the
\* secondary record has totalHours001 = percent / 100 * 8 (percent * 8
\* hundredths), whatever the primary day's hours; its breakMinutes is the
\* integer nearest to 30 * hours / 8 (the even one of two equally near)
\* when include_breaks is set and 0 when it is not; and its departure is
\* its arrival plus the integer nearest to hours * 60 minutes.
C11_SecondaryFromPercent ==
  secondary_data # <<>> =>
    \A i \in 1..Len(data) :
      data[i].type # "business-trip" =>
        LET s == secondary_data[i]
            h == s.totalHours001
            brk == s.breakMinutes
            arr == TimeToMinutes(s.arrival)
            dep == TimeToMinutes(s.departure)
        IN  /\ 100 * h = secondary_work.percent * 800
            /\ s.totalHours002 = 0
            /\ IF secondary_work.include_breaks
               THEN /\ 2 * (800 * brk - 30 * h) \in -800..800
                    /\ 2 * (800 * brk - 30 * h) \in {-800, 800} => brk % 2 = 0
               ELSE brk = 0
            /\ 2 * (100 * (dep - arr) - 60 * h) \in -100..100

\* 15 percent of a full day after a primary day of 7.5 hours: 1.2 hours,
\* 72 minutes of work and, 4.5 being half-way, 4 minutes of break
C11_Witness ==
  /\ secondary_data # <<>>
  /\ secondary_work = [percent |-> 15, include_breaks |-> TRUE]
  /\ data[1].type = "normal-work"
  /\ data[1].totalHours001 = 750
  /\ secondary_data[1].totalHours001 = 120
  /\ secondary_data[1].breakMinutes = 4
  /\ TimeToMinutes(secondary_data[1].departure)
       = TimeToMinutes(data[1].departure) + 72

\* no breaks asked for: none given, at a full day of secondary work
C11_WitnessNoBreaks ==
  /\ secondary_data # <<>>
  /\ secondary_work = [percent |-> 100, include_breaks |-> FALSE]
  /\ data[1].type = "normal-work"
  /\ secondary_data[1].totalHours001 = 800
  /\ secondary_data[1].breakMinutes = 0

\* the secondary sequence is parallel to the primary one
SecondaryAligned ==
  secondary_data # <<>> =>
    /\ Len(secondary_data) = Len(data)
    /\ \A i \in 1..Len(data) :
         /\ secondary_data[i].day = data[i].day
         /\ secondary_data[i].type = data[i].type
         /\ data[i].type = "business-trip" =>
              /\ secondary_data[i].totalHours001 = 0
              /\ secondary_data[i].totalHours002 = data[i].totalHours002
              /\ "arrival" \notin DOMAIN secondary_data[i]
              /\ "departure" \notin DOMAIN secondary_data[i]

\* a step that derives or changes the secondary sequence leaves every
\* business-trip record and every time-synthesized record of the primary
\* sequence as it was
PrimaryKept ==
  secondary_data' # secondary_data =>
    /\ Len(data') = Len(data)
    /\ \A i \in 1..Len(data) :
         (data[i].type = "business-trip" \/ "arrival" \in DOMAIN data[i])
           => data'[i] = data[i]

\* C12: the secondary sequence has the primary's length and, index by
\* index, its day and type; a business-trip day is copied with
\* totalHours001 = 0, the primary's totalHours002 and no arrival or
\* departure; and deriving the secondary changes no field of a primary
\* record that already had its times.
C12_SecondaryParallel == []SecondaryAligned /\ [][PrimaryKept]_vars

\* a trip day that also has normal-work hours, next to a normal-work day;
\* the primary document has been rendered and the secondary derived
C12_Witness ==
  /\ secondary_data # <<>>
  /\ Len(data) = 2
  /\ data[1].type = "business-trip"
  /\ data[1].totalHours001 = 400
  /\ secondary_data[1].totalHours001 = 0
  /\ secondary_data[1].totalHours002 = 400
  /\ data[2].type = "normal-work"
  /\ rendered_primary # <<>>
  /\ secondary_data[2].arrival = data[2].departure

\* a record without computed times, for which nothing was drawn
NoTimes(day_data, draws) ==
  /\ "arrival" \notin DOMAIN day_data
  /\ "departure" \notin DOMAIN day_data
  /\ "breakMinutes" \notin DOMAIN day_data
  /\ draws = <<>>

\* C13: whatever calls have been made, a business-trip record (also one
\* of a day with normal-work hours) of the primary or of the secondary
\* sequence has no arrival, departure or breakMinutes and no offset was
\* drawn for it; the documents show "-" in its time cells.
C13_TripHasNoTimes ==
  /\ \A i \in 1..Len(data) :
       data[i].type = "business-trip" => NoTimes(data[i], drawn[i])
  /\ \A i \in 1..Len(secondary_data) :
       secondary_data[i].type = "business-trip"
         => NoTimes(secondary_data[i], drawn_secondary[i])
  /\ \A i \in 1..Len(rendered_primary) :
       data[i].type = "business-trip"
         => rendered_primary[i][2] = "-" /\ rendered_primary[i][3] = "-"
  /\ \A i \in 1..Len(rendered_secondary) :
       secondary_data[i].type = "business-trip"
         => rendered_secondary[i][2] = "-" /\ rendered_secondary[i][3] = "-"

\* every method has run on a document with a trip day that also has
\* normal-work hours and a normal-work day whose offset was drawn
C13_Witness ==
  /\ rendered_primary # <<>>
  /\ rendered_secondary # <<>>
  /\ \E i, j \in 1..Len(data) :
       /\ data[i].type = "business-trip"
       /\ data[i].totalHours001 > 0
       /\ data[j].type = "normal-work"
       /\ drawn[j] = <<MaxScatter>>

\* a string HH:MM that denotes a time of day, 00:00 to 23:59
TimeOfDay(t) ==
  /\ Len(t) = 5
  /\ Char(t, 1) \in Digits /\ Char(t, 2) \in Digits
  /\ Char(t, 3) = ":"
  /\ Char(t, 4) \in Digits /\ Char(t, 5) \in Digits
  /\ TimeToMinutes(t) \in 0..(24 * 60 - 1)
  /\ ParseInt(SubSeq(t, 4, 5)) \in 0..59

\* C16 as stated: every arrival and departure stored by time synthesis or
\* by secondary derivation, and shown in a document, is a time of day
\* within 00:00-23:59 (a value the base arrival, the offset and the work
\* minutes push out of that range is clamped into it).
C16_AsStated ==
  /\ \A recs \in {data, secondary_data} :
       \A i \in 1..Len(recs) :
         "arrival" \in DOMAIN recs[i] =>
           TimeOfDay(recs[i].arrival) /\ TimeOfDay(recs[i].departure)
  /\ \A rows \in {rendered_primary, rendered_secondary} :
       \A i \in 1..Len(rows) :
         rows[i][2] # "-" => TimeOfDay(rows[i][2]) /\ TimeOfDay(rows[i][3])

(***************************************************************************)
(* Properties of document parsing and of the batch.                        *)
(***************************************************************************)
\* what a page text holds, read off the text itself
HasNameLabel(doc) == Contains(doc.text, NameLabel)
HasPeriodLabel(doc) == Contains(doc.text, PeriodLabel)
HasDateRange(doc) ==
  \/ Contains(doc.text, "01.09.2025 - 30.09.2025")
  \/ Contains(doc.text, "01.13.2024-31.13.2024")

\* month and year of the period a text gives as a date range
RangeMonthYear(doc) ==
  IF Contains(doc.text, "01.09.2025 - 30.09.2025")
  THEN <<"september", "2025">>
  ELSE <<"oktober", "2024">>

\* the documents the loop has dealt with
Handled == 1..Len(statuses)

\* C9 as stated: a document without the name label or without a date range
\* in its text is given up (parse returns none), and a returned result has
\* its month and year from a matched range.
C9_AsStated ==
  /\ \A i \in Handled :
       (~HasNameLabel(pdf_files[i]) \/ ~HasDateRange(pdf_files[i]))
         => statuses[i] = "skipped"
  /\ bpc = "file" =>
       /\ HasNameLabel(pdf_files[file_idx])
       /\ HasDateRange(pdf_files[file_idx])
       /\ <<parsed.month, parsed.year>> = RangeMonthYear(pdf_files[file_idx])

\* C9: the parse returns none whenever the name label or the period label
\* "STROSKOVNIK ZA ODBOBJE:" is absent.  With both labels and working days
\* it returns a result also when the period text holds no date range: then
\* period is the raw period text and month and year are the defaults
\* "oktober" and "2025"; with a range, year is the start year and month the
\* name of the start month ("oktober" for a number outside 1..12).
C9_ParseFailure ==
  /\ \A i \in Handled :
       /\ (~HasNameLabel(pdf_files[i]) \/ ~HasPeriodLabel(pdf_files[i]))
            => statuses[i] = "skipped"
       /\ ( /\ HasNameLabel(pdf_files[i])
            /\ HasPeriodLabel(pdf_files[i])
            /\ pdf_files[i].tables = TablesB
            /\ pdf_files[i].extract # "raise" )
            => statuses[i] # "skipped"
  /\ bpc = "file" =>
       LET doc == pdf_files[file_idx]
       IN  /\ HasNameLabel(doc)
           /\ HasPeriodLabel(doc)
           /\ ~parsed.is_none
           /\ parsed.name = "Ana Novak"
           /\ parsed.working_days = Len(parsed.table_data)
           /\ parsed.working_days > 0
           /\ IF HasDateRange(doc)
              THEN /\ <<parsed.month, parsed.year>> = RangeMonthYear(doc)
                   /\ parsed.period = parsed.month \o " " \o parsed.year
              ELSE /\ parsed.month = "oktober"
                   /\ parsed.year = "2025"
                   /\ parsed.period = "september 2025"

\* a document whose period text has no date range was parsed to a result
C9_Witness ==
  /\ bpc = "file"
  /\ pdf_files[file_idx] = DocNoRange
  /\ ~parsed.is_none
  /\ parsed.month = "oktober"
  /\ parsed.year = "2025"

\* the status each kind of document must end with
ExpectedStatus(doc) ==
  CASE doc \in {DocGood, DocMonth13, DocNoRange} -> "ok"
    [] doc \in {DocUnreadable, DocNoName, DocNoPeriod, DocOtherLabel,
                DocNoTable, DocNoGrids} -> "skipped"
    [] doc \in {DocRereadFails, DocRenderFails} -> "failed"
    [] doc = DocSecondaryFails ->
         IF secondary_arg.enabled THEN "failed" ELSE "ok"

\* C10: the documents are dealt with in order, one at a time; every failure
\* of a document becomes that document's status and the loop goes on; when
\* the batch ends every document has its status, success_count counts the
\* successes, and the result is success (exit 0) iff one document
\* succeeded, failure (exit 1) otherwise.
C10_BatchContinues ==
  /\ bpc \in {"loop", "file"} => Len(statuses) = file_idx - 1
  /\ Len(statuses) <= Len(pdf_files)
  /\ \A i \in Handled : statuses[i] = ExpectedStatus(pdf_files[i])
  /\ \A i \in Handled : statuses[i] = "ok" => <<i, "primary">> \in outputs
  /\ success_count = Cardinality({i \in Handled : statuses[i] = "ok"})
  /\ bpc = "done" =>
       /\ Len(statuses) = Len(pdf_files)
       /\ batch_result <=> \E i \in Handled : statuses[i] = "ok"
       /\ exit_code = IF \E i \in Handled : statuses[i] = "ok" THEN 0 ELSE 1
  /\ bpc # "done" => exit_code = -1

\* the first document failed in rendering, the second one was still done
C10_Witness ==
  /\ bpc = "done"
  /\ Len(pdf_files) >= 2
  /\ pdf_files[1] = DocRenderFails
  /\ pdf_files[2] = DocGood
  /\ statuses[1] = "failed"
  /\ statuses[2] = "ok"
  /\ batch_result
  /\ exit_code = 0

\* every document of the batch failed
C10_WitnessAllFail ==
  /\ bpc = "done"
  /\ Len(pdf_files) >= 2
  /\ statuses[1] = "skipped"
  /\ statuses[2] = "failed"
  /\ ~batch_result
  /\ exit_code = 1

(***************************************************************************)
(* Properties of the configuration.                                        *)
(***************************************************************************)
\* the file's JSON object, empty when there is no file or it does not load
FileJson ==
  IF config_file.exists /\ config_file.loads THEN config_file.json
  ELSE NoEntry

\* precedence defaults -> file -> command line for one key
Merged(cli_key, key) ==
  IF cli_key \in DOMAIN argv THEN argv[cli_key]
  ELSE IF key \in DOMAIN FileJson THEN FileJson[key]
  ELSE DefaultConfig[key]

\* C15 as stated: once main has applied the command line, arrival_time and
\* scattering_minutes are the value given on the command line if one is
\* given, else the file's value if the file has one, else the default
\* (09:00, 10); a key missing from the file has its default and a key of
\* the file that is no configuration key is kept with its value.
C15_AsStated ==
  mpc \in {"merged", "done"} =>
    /\ config.arrival_time = Merged("arrival_time", "arrival_time")
    /\ config.scattering_minutes = Merged("scattering", "scattering_minutes")
    /\ \A k \in DOMAIN DefaultConfig \ DOMAIN FileJson :
         (k \notin {"arrival_time", "scattering_minutes"}
            /\ ~main_secondary.enabled)
           => config[k] = DefaultConfig[k]
    /\ \A k \in DOMAIN FileJson \ DOMAIN DefaultConfig :
         k \in DOMAIN config /\ config[k] = FileJson[k]
====
